---- MODULE Spec2Model ----
(***************************************************************************)
(* A model of tui-confirm-dialog: the ConfirmDialogState state machine of  *)
(* src/src/confirm_dialog.rs, the sending side of the mpsc channel its     *)
(* listener writes to, and the host guard of src/examples/confirm.rs.      *)
(***************************************************************************)
EXTENDS Integers, Sequences, FiniteSets, TLC

(***************************************************************************)
(* Bounds of the model.                                                    *)
(***************************************************************************)
\* The per-cycle send counter saturates here (it only has to tell 0, 1, more).
MaxCycleSent == 2
\* The longest label handed to the parser, in characters.
MaxLabelLen == 4
\* The largest width and height of a requested size and of an available area.
MaxSide == 3
\* The largest x and y of the origin of an available area.
MaxOrigin == 1

(***************************************************************************)
(* Values.                                                                 *)
(***************************************************************************)
\* Option<T>
None == [tag |-> "None"]
Some(v) == [tag |-> "Some", val |-> v]

\* ButtonLabel { label, control, style }; a label is a sequence of characters.
ButtonLabel_new(label, control) == [label |-> label, control |-> control, style |-> None]

\* ButtonLabel::YES and ButtonLabel::NO
YES == [label |-> <<"(", "Y", ")", "e", "s">>, control |-> "y", style |-> None]
NO == [label |-> <<"(", "N", ")", "o">>, control |-> "n", style |-> None]

\* The ids, titles and texts a host constructs the dialog with.  A text is
\* the sequence of the display widths of its lines.
Ids == {1, 2}
Titles == {"", " Please Select "}
Texts == {<< >>, <<42, 29>>}

\* Buttons the host passes to with_yes_button / with_no_button: a library
\* constant and a directly constructed one with an upper-case control.
ButtonInputs == {NO, ButtonLabel_new(<<"O", "k">>, "Y")}

\* Key events.  A KeyCode is Esc, Enter, Left, Right, Tab (standing for every
\* code handle() has no arm for) or Char(chr).
Chars == {"y", "n", "Y", "x"}
Kinds == {"Press", "Release", "Repeat"}
Key(code, kind) == [code |-> code, chr |-> "", kind |-> kind]
CharKey(chr, kind) == [code |-> "Char", chr |-> chr, kind |-> kind]
KeyEvents ==
    {Key(c, k) : c \in {"Esc", "Enter", "Left", "Right", "Tab"}, k \in Kinds}
        \cup {CharKey(c, k) : c \in Chars, k \in Kinds}
NoEvent == [code |-> "-", chr |-> "", kind |-> "-"]

\* The Listener tuple (u16, Option<bool>)
Msg(id, result) == [id |-> id, result |-> result]

VARIABLES
    state,       \* the ConfirmDialogState
    rx_alive,    \* whether the Receiver of that channel still exists
    call,        \* the last operation called and its key event
    pre,         \* the ConfirmDialogState before that call
    ret,         \* what handle() returned in that call (None for other calls)
    sent,        \* the tx.send calls made by that call, in order
    queued,      \* those of them the channel accepted
    last_sel,    \* what the most recent selecting operation selected
    cycle_sent,  \* tx.send calls since the last open() (saturating)
    input,       \* the input of the pure function under study (None: none)
    output       \* what that function made of it (None: not applied yet)

dialog_vars == <<state, rx_alive, call, pre, ret, sent, queued, last_sel, cycle_sent>>

vars == <<state, rx_alive, call, pre, ret, sent, queued, last_sel, cycle_sent,
          input, output>>

(***************************************************************************)
(* ConfirmDialogState                                                      *)
(***************************************************************************)
ConfirmDialogState_new(id, title, text) ==
    [ id           |-> id,
      title        |-> title,
      text         |-> text,
      modal        |-> FALSE,
      opened       |-> FALSE,
      listener     |-> None,
      yes_selected |-> TRUE,
      yes_button   |-> ButtonLabel_new(<<"Y", "e", "s">>, "y"),
      no_button    |-> Some(ButtonLabel_new(<<"N", "o">>, "n")) ]

\* open() that also puts the selection back on the yes button.
open_ResetsSelection(s) == [s EXCEPT !.opened = TRUE, !.yes_selected = TRUE]

open(s) == [s EXCEPT !.opened = TRUE]

\* close() that also puts the selection back on the yes button.
close_ResetsSelection(s) == [s EXCEPT !.opened = FALSE, !.yes_selected = TRUE]

close(s) == [s EXCEPT !.opened = FALSE]

modal(s, value) == [s EXCEPT !.modal = value]

with_title(s, title) == [s EXCEPT !.title = title]

with_text(s, text) == [s EXCEPT !.text = text]

with_listener(s, listener) == [s EXCEPT !.listener = listener]

with_yes_button(s, label) == [s EXCEPT !.yes_button = label]

with_no_button(s, label) == [s EXCEPT !.no_button = Some(label)]

without_no_button(s) == [s EXCEPT !.no_button = None]

with_yes_button_selected(s, selected) == [s EXCEPT !.yes_selected = selected]

is_opened(s) == s.opened

\* The tx.send calls send_close_message makes: one when a listener is set.
send_close_message(s, result) ==
    IF s.listener # None THEN <<Msg(s.id, result)>> ELSE << >>

\* What an arm of handle() yields: the new state, the sends, the return value.
Outcome(s, msgs, r) == [st |-> s, msgs |-> msgs, ret |-> r]

\* Esc arm that reports a decline instead of a dismissal.
HandleEsc_SendsDeclined(s) ==
    IF ~s.modal
    THEN LET t == [s EXCEPT !.opened = FALSE]
         IN  Outcome(t, send_close_message(t, Some(FALSE)), TRUE)
    ELSE Outcome(s, << >>, FALSE)

\* Esc arm that forgets to look at the modal flag.
HandleEsc_IgnoresModal(s) ==
    LET t == [s EXCEPT !.opened = FALSE]
    IN  Outcome(t, send_close_message(t, None), TRUE)

HandleEsc(s) ==
    IF ~s.modal
    THEN LET t == [s EXCEPT !.opened = FALSE]
         IN  Outcome(t, send_close_message(t, None), TRUE)
    ELSE Outcome(s, << >>, FALSE)

\* Char arm whose no-button branch notifies but forgets to close.
HandleChar_NoKeepsOpen(s, chr) ==
    IF chr = s.yes_button.control
    THEN LET t == [s EXCEPT !.opened = FALSE]
         IN  Outcome(t, send_close_message(t, Some(TRUE)), TRUE)
    ELSE IF s.no_button # None /\ chr = s.no_button.val.control
    THEN Outcome(s, send_close_message(s, Some(FALSE)), TRUE)
    ELSE Outcome(s, << >>, s.modal)

\* Char arm that tests the no-button before the yes-button.
HandleChar_NoFirst(s, chr) ==
    IF s.no_button # None /\ chr = s.no_button.val.control
    THEN LET t == [s EXCEPT !.opened = FALSE]
         IN  Outcome(t, send_close_message(t, Some(FALSE)), TRUE)
    ELSE IF chr = s.yes_button.control
    THEN LET t == [s EXCEPT !.opened = FALSE]
         IN  Outcome(t, send_close_message(t, Some(TRUE)), TRUE)
    ELSE Outcome(s, << >>, s.modal)

\* Char arm that compares the key with the controls whatever the case.
HandleChar_IgnoresCase(s, chr) ==
    LET lower(c) == IF c = "Y" THEN "y" ELSE IF c = "N" THEN "n" ELSE c
    IN  IF lower(chr) = lower(s.yes_button.control)
        THEN LET t == [s EXCEPT !.opened = FALSE]
             IN  Outcome(t, send_close_message(t, Some(TRUE)), TRUE)
        ELSE IF s.no_button # None /\ lower(chr) = lower(s.no_button.val.control)
        THEN LET t == [s EXCEPT !.opened = FALSE]
             IN  Outcome(t, send_close_message(t, Some(FALSE)), TRUE)
        ELSE Outcome(s, << >>, s.modal)

HandleChar(s, chr) ==
    IF chr = s.yes_button.control
    THEN LET t == [s EXCEPT !.opened = FALSE]
         IN  Outcome(t, send_close_message(t, Some(TRUE)), TRUE)
    ELSE IF s.no_button # None /\ chr = s.no_button.val.control
    THEN LET t == [s EXCEPT !.opened = FALSE]
         IN  Outcome(t, send_close_message(t, Some(FALSE)), TRUE)
    ELSE Outcome(s, << >>, s.modal)

\* Right arm that toggles the selection instead of setting it.
HandleRight_Toggles(s) ==
    IF s.no_button # None
    THEN Outcome([s EXCEPT !.yes_selected = ~s.yes_selected], << >>, s.modal)
    ELSE Outcome(s, << >>, s.modal)

HandleRight(s) ==
    IF s.no_button # None /\ s.yes_selected
    THEN Outcome([s EXCEPT !.yes_selected = FALSE], << >>, s.modal)
    ELSE Outcome(s, << >>, s.modal)

\* Left arm that reports the key as consumed.
HandleLeft_Consumes(s) ==
    IF s.no_button # None /\ ~s.yes_selected
    THEN Outcome([s EXCEPT !.yes_selected = TRUE], << >>, TRUE)
    ELSE Outcome(s, << >>, TRUE)

HandleLeft(s) ==
    IF s.no_button # None /\ ~s.yes_selected
    THEN Outcome([s EXCEPT !.yes_selected = TRUE], << >>, s.modal)
    ELSE Outcome(s, << >>, s.modal)

\* Enter arm that always confirms.
HandleEnter_AlwaysYes(s) ==
    LET t == [s EXCEPT !.opened = FALSE]
    IN  Outcome(t, send_close_message(t, Some(TRUE)), TRUE)

\* Enter arm that notifies but leaves the dialog opened.
HandleEnter_KeepsOpen(s) ==
    IF s.yes_selected
    THEN Outcome(s, send_close_message(s, Some(TRUE)), TRUE)
    ELSE Outcome(s, send_close_message(s, Some(FALSE)), TRUE)

HandleEnter(s) ==
    LET t == [s EXCEPT !.opened = FALSE]
    IN  IF s.yes_selected
        THEN Outcome(t, send_close_message(t, Some(TRUE)), TRUE)
        ELSE Outcome(t, send_close_message(t, Some(FALSE)), TRUE)

\* Default arm that always reports the key as consumed.
HandleOther_Consumes(s) == Outcome(s, << >>, TRUE)

HandleOther(s) == Outcome(s, << >>, s.modal)

\* handle() that acts on every kind of key event.
handle_AnyKind(s, event) ==
    CASE event.code = "Esc"   -> HandleEsc(s)
      [] event.code = "Char"  -> HandleChar(s, event.chr)
      [] event.code = "Right" -> HandleRight(s)
      [] event.code = "Left"  -> HandleLeft(s)
      [] event.code = "Enter" -> HandleEnter(s)
      [] OTHER                -> HandleOther(s)

handle(s, event) ==
    IF event.kind = "Press"
    THEN CASE event.code = "Esc"   -> HandleEsc(s)
           [] event.code = "Char"  -> HandleChar(s, event.chr)
           [] event.code = "Right" -> HandleRight(s)
           [] event.code = "Left"  -> HandleLeft(s)
           [] event.code = "Enter" -> HandleEnter(s)
           [] OTHER                -> HandleOther(s)
    ELSE Outcome(s, << >>, FALSE)

(***************************************************************************)
(* The channel: Sender::send queues the message while the Receiver exists  *)
(* and fails (send_close_message drops the error) once it is gone.  What   *)
(* the queue holds afterwards is the Receiver's to consume; the model      *)
(* keeps what each call put on it.                                         *)
(***************************************************************************)
Deliver(alive, msgs) == IF alive THEN msgs ELSE << >>

\* send_close_message that unwraps the Result of send: it panics on Err.
Returns_Unwrap(alive, msgs) == alive \/ msgs = << >>

\* Whether send_close_message returns to handle(): `let _ =` discards the
\* Result of every send, Ok or Err.
Returns(alive, msgs) == TRUE

(***************************************************************************)
(* ConfirmDialog::render as far as the state goes: it reads the state (the  *)
(* local yes_selected decides the two button styles) and writes none of    *)
(* its fields.                                                             *)
(***************************************************************************)
\* render() that stores its local yes_selected back into the state.
render_StoresSelection(s) ==
    LET yes_selected == s.yes_selected \/ s.no_button = None
    IN  [ st        |-> [s EXCEPT !.yes_selected = yes_selected],
          yes_style |-> IF yes_selected THEN "selected_button_style" ELSE "button_style",
          no_style  |-> IF s.no_button = None THEN None
                        ELSE Some(IF ~yes_selected THEN "selected_button_style"
                                  ELSE "button_style") ]

\* render() that styles the yes button by the stored selection alone.
render_SelectionAsStored(s) ==
    [ st        |-> s,
      yes_style |-> IF s.yes_selected THEN "selected_button_style" ELSE "button_style",
      no_style  |-> IF s.no_button = None THEN None
                    ELSE Some(IF ~s.yes_selected THEN "selected_button_style"
                              ELSE "button_style") ]

render(s) ==
    LET yes_selected == s.yes_selected \/ s.no_button = None
    IN  [ st        |-> s,
          yes_style |-> IF yes_selected THEN "selected_button_style" ELSE "button_style",
          no_style  |-> IF s.no_button = None THEN None
                        ELSE Some(IF ~yes_selected THEN "selected_button_style"
                                  ELSE "button_style") ]


(***************************************************************************)
(* Button label parsing: TryFrom<&str> for ButtonLabel.                    *)
(*                                                                         *)
(* A &str is a sequence of characters; "i_grave" and "I_grave" stand for   *)
(* U+00EC and U+00CC, which take two bytes in UTF-8, every other character *)
(* of the model takes one.                                                 *)
(***************************************************************************)
LabelChars == {"(", ")", "N", "o", "i_grave", "I_grave"}

Labels == UNION {[1..n -> LabelChars] : n \in 0..MaxLabelLen}

\* The control characters handed to ButtonLabel::new beside a label.
Controls == {"n", "x"}

\* char::len_utf8
len_utf8(c) == IF c \in {"i_grave", "I_grave"} THEN 2 ELSE 1

\* The class \w of the regex (Unicode aware): letters, not parentheses.
is_word(c) == c \notin {"(", ")"}

\* char::to_ascii_lowercase: only A-Z change.
to_ascii_lowercase(c) ==
    CASE c = "N" -> "n"
      [] c = "Y" -> "y"
      [] c = "O" -> "o"
      [] OTHER   -> c

\* The lowercase form of a character, non-ASCII letters included.
to_lowercase(c) == IF c = "I_grave" THEN "i_grave" ELSE to_ascii_lowercase(c)

\* The byte offset of the i-th character (counted from 1) of value.
RECURSIVE byte_offset(_, _)
byte_offset(value, i) ==
    IF i =< 1 THEN 0 ELSE byte_offset(value, i - 1) + len_utf8(value[i - 1])

\* The characters at which "(", a word character, ")" begins.
Matches(value) ==
    {i \in 1..Len(value) :
        /\ i + 2 =< Len(value)
        /\ value[i] = "("
        /\ is_word(value[i + 1])
        /\ value[i + 2] = ")"}

\* The character at which the leftmost match begins, 0 when there is none.
MatchAt(value) ==
    IF Matches(value) = {} THEN 0
    ELSE CHOOSE i \in Matches(value) : \A j \in Matches(value) : i =< j

\* BUTTON_LABEL_RE.find(value): the leftmost match, known by the byte
\* offset of its start.
find(value) ==
    IF MatchAt(value) = 0 THEN None
    ELSE Some([start |-> byte_offset(value, MatchAt(value))])

\* value.chars().nth(n): n counts characters from 0.
chars_nth(value, n) == IF n + 1 =< Len(value) THEN Some(value[n + 1]) ELSE None

\* Result<ButtonLabel, TryFromSliceError>, or the panic of an unwrap / slice.
Ok(v) == [tag |-> "Ok", val |-> v]
Err == [tag |-> "Err"]
Panic == [tag |-> "Panic"]

\* try_from whose fallback leaves the character out of the parentheses.
try_from_EmptyParens(value) ==
    IF value = << >> THEN Err
    ELSE IF find(value) # None
    THEN LET control_char == chars_nth(value, find(value).val.start + 1)
         IN  IF control_char = None THEN Panic
             ELSE Ok([ label   |-> value,
                       control |-> to_ascii_lowercase(control_char.val),
                       style   |-> None ])
    ELSE LET char == chars_nth(value, 0).val
         IN  IF len_utf8(char) # 1 THEN Panic
             ELSE Ok([ label   |-> <<"(", ")">> \o Tail(value),
                       control |-> to_ascii_lowercase(char),
                       style   |-> None ])

\* The match's byte offset is used as a character index (line 74), and the
\* fallback slices the &str at byte 1 (line 82), which panics unless the
\* first character is one byte long.
try_from(value) ==
    IF value = << >> THEN Err
    ELSE IF find(value) # None
    THEN LET control_char == chars_nth(value, find(value).val.start + 1)
         IN  IF control_char = None THEN Panic
             ELSE Ok([ label   |-> value,
                       control |-> to_ascii_lowercase(control_char.val),
                       style   |-> None ])
    ELSE LET char == chars_nth(value, 0).val
         IN  IF len_utf8(char) # 1 THEN Panic
             ELSE Ok([ label   |-> <<"(", char, ")">> \o Tail(value),
                       control |-> to_ascii_lowercase(char),
                       style   |-> None ])

(***************************************************************************)
(* Geometry helper: centered_rect_with_size.                               *)
(***************************************************************************)
Rect(x, y, width, height) == [x |-> x, y |-> y, width |-> width, height |-> height]

RectInputs ==
    [ width  : 0..MaxSide,
      height : 0..MaxSide,
      r      : [x : 0..MaxOrigin, y : 0..MaxOrigin,
                width : 0..MaxSide, height : 0..MaxSide] ]

\* u16::min and u16::saturating_sub
min(a, b) == IF a < b THEN a ELSE b
saturating_sub(a, b) == IF a > b THEN a - b ELSE 0

\* Layout::split of the span [start, start + len) under the constraints
\* [Max(margin), Length(size), Max(margin)]: the elements are laid out from
\* the start, each as large as asked while the span lasts.  The second one.
split_middle(start, len, margin, size) ==
    LET first == min(margin, len)
    IN  [start |-> start + first, len |-> min(size, len - first)]

\* A centering computed by hand from the requested size, without the clamp.
centered_rect_with_size_Unclamped(width, height, r) ==
    Rect(r.x + saturating_sub(r.width, width) \div 2,
         r.y + saturating_sub(r.height, height) \div 2,
         width, height)

\* centered_rect_with_size whose margins round the half remainder up.
centered_rect_with_size_CeilMargin(width, height, r) ==
    LET w == min(width, r.width)
        h == min(height, r.height)
        remaining_width == saturating_sub(r.width, w)
        remaining_height == saturating_sub(r.height, h)
        v == split_middle(r.y, r.height, (remaining_height + 1) \div 2, h)
        popup_layout_1 == Rect(r.x, v.start, r.width, v.len)
        hz == split_middle(popup_layout_1.x, popup_layout_1.width,
                           (remaining_width + 1) \div 2, w)
    IN  Rect(hz.start, popup_layout_1.y, hz.len, popup_layout_1.height)

centered_rect_with_size(width, height, r) ==
    LET w == min(width, r.width)
        h == min(height, r.height)
        remaining_width == saturating_sub(r.width, w)
        remaining_height == saturating_sub(r.height, h)
        v == split_middle(r.y, r.height, remaining_height \div 2, h)
        popup_layout_1 == Rect(r.x, v.start, r.width, v.len)
        hz == split_middle(popup_layout_1.x, popup_layout_1.width,
                           remaining_width \div 2, w)
    IN  Rect(hz.start, popup_layout_1.y, hz.len, popup_layout_1.height)

(***************************************************************************)
(* Rendering: the sizes ConfirmDialog::render and PopupMessage::render     *)
(* compute, the rectangle they ask the geometry helper for, and the margin *)
(* of the button row.  Widths and heights are u16 cells.                   *)
(***************************************************************************)
horizontal_padding == 2
vertical_padding == 2
buttons_padding == 2

\* `as u16`: the cast keeps the low 16 bits.
as_u16(n) == n % 65536

\* u16::max and u16::saturating_add
max(a, b) == IF a > b THEN a ELSE b
saturating_add(a, b) == min(a + b, 65535)

\* The `-` of two u16: when the result would be negative, a build with
\* overflow checks (debug) panics and one without (release) wraps.
Builds == {"debug", "release"}
u16_sub(a, b, build) ==
    IF a >= b THEN Some(a - b)
    ELSE IF build = "debug" THEN None
    ELSE Some(a - b + 65536)

\* ButtonLabel::len that counts the characters of the label.
ButtonLabel_len_Chars(b) == Len(b.label) + 2

\* ButtonLabel::len: String::len is the length in bytes.
ButtonLabel_len(b) == byte_offset(b.label, Len(b.label) + 1) + 2

yes_button_size(s) == as_u16(ButtonLabel_len(s.yes_button) + buttons_padding)

no_button_size(s) ==
    IF s.no_button = None THEN 0
    ELSE as_u16(ButtonLabel_len(s.no_button.val) + buttons_padding)

min_width(s) == as_u16((yes_button_size(s) + no_button_size(s)) + horizontal_padding * 2)

\* The width of the widest line of a text that has lines.
widest(text) == CHOOSE w \in {text[i] : i \in 1..Len(text)} :
                    \A i \in 1..Len(text) : text[i] =< w

\* The requested width without the floor of 40 cells.
render_width_NoFloor(s) ==
    LET width == IF s.text = << >> THEN as_u16(min_width(s))
                 ELSE as_u16(widest(s.text) + horizontal_padding * 2)
    IN  max(width, min_width(s))

\* `width`, as handed to centered_rect_with_size.
render_width(s) ==
    LET width == IF s.text = << >> THEN as_u16(min_width(s))
                 ELSE as_u16(widest(s.text) + horizontal_padding * 2)
    IN  max(max(width, min_width(s)), 40)

\* `height`, as handed to centered_rect_with_size.
render_height(s) == as_u16(Len(s.text) + 1 + (vertical_padding * 2 + 1))

\* `c`, the margin on each side of the button row; main_layout splits
\* centered_area vertically, so main_layout[1] is as wide as centered_area.
\* None: the subtraction panicked.
buttons_margin(s, area, build) ==
    LET centered_area == centered_rect_with_size(render_width(s), render_height(s), area)
        main_layout_1_width == centered_area.width
        d == IF s.no_button # None
             THEN u16_sub(main_layout_1_width,
                          yes_button_size(s) + no_button_size(s), build)
             ELSE u16_sub(main_layout_1_width, yes_button_size(s), build)
    IN  IF d = None THEN None ELSE Some(d.val \div 2)

\* What one call of ConfirmDialog::render computes; trap: it panicked.
ConfirmDialog_render(s, area, build) ==
    [ tag             |-> "ConfirmDialog",
      yes_style       |-> render(s).yes_style,
      no_style        |-> render(s).no_style,
      yes_button_size |-> yes_button_size(s),
      no_button_size  |-> no_button_size(s),
      min_width       |-> min_width(s),
      width           |-> render_width(s),
      height          |-> render_height(s),
      centered_area   |-> centered_rect_with_size(render_width(s), render_height(s), area),
      c               |-> buttons_margin(s, area, build),
      trap            |-> buttons_margin(s, area, build) = None ]

\* Padding::uniform and PopupMessage::new (title and styles left out).
Padding_uniform(n) == [left |-> n, right |-> n, top |-> n, bottom |-> n]
PopupMessage_new(message) == [padding |-> Padding_uniform(2), message |-> message]

\* What one call of PopupMessage::render computes: max_by gives None for a
\* message without lines and the unwrap() panics.
PopupMessage_render(popup, area) ==
    IF popup.message = << >>
    THEN [tag |-> "PopupMessage", trap |-> TRUE]
    ELSE LET padding_h == popup.padding.left + popup.padding.right
             padding_v == popup.padding.top + popup.padding.bottom
             w == as_u16(widest(popup.message) + padding_h + 2)
             width == IF w % 2 = 1 THEN saturating_add(w, 1) ELSE w
             h == as_u16(Len(popup.message) + padding_v) + 1
             height == IF h % 2 = 1 THEN saturating_add(h, 1) ELSE h
         IN  [ tag           |-> "PopupMessage",
               trap          |-> FALSE,
               width         |-> width,
               height        |-> height + 1,
               centered_area |-> centered_rect_with_size(width, height + 1, area) ]

\* The dialogs a host builds before it draws them, the areas it draws them
\* on (none of them empty) and the popups it draws.
RenderButtons ==
    { YES,
      ButtonLabel_new(<<"S", "(", "i_grave", ")">>, "i_grave"),
      ButtonLabel_new([i \in 1..40 |-> "o"], "o") }

RenderStates ==
    LET d0 == {ConfirmDialogState_new(1, " Please Select ", x) : x \in Texts \cup {<<10>>}}
        d1 == d0 \cup {with_yes_button(s, b) : s \in d0, b \in RenderButtons}
        d2 == d1 \cup {without_no_button(s) : s \in d1}
                 \cup {with_no_button(s, NO) : s \in d1}
    IN  d2 \cup {with_yes_button_selected(s, FALSE) : s \in d2}

RenderAreas == {Rect(0, 0, w, h) : w \in {1, 10, 80, 200}, h \in {1, 24}}

RenderInputs == [area : RenderAreas, popup : {PopupMessage_new(m) : m \in Texts}]

(***************************************************************************)
(* Initial state: a dialog fresh from ConfirmDialogState::new and a fresh  *)
(* channel, as in App::new.                                                *)
(***************************************************************************)
InitDialog ==
    /\ state \in {ConfirmDialogState_new(i, t, x) : i \in Ids, t \in Titles, x \in Texts}
    /\ rx_alive = TRUE
    /\ call = [name |-> "new", event |-> NoEvent]
    /\ pre = state
    /\ ret = None
    /\ sent = << >>
    /\ queued = << >>
    /\ last_sel = TRUE
    /\ cycle_sent = 0

Init ==
    /\ InitDialog
    /\ input = None
    /\ output = None

\* A call of a mutator or of open/close: it only rewrites the state.
Mutate(name, s) ==
    /\ state' = s
    /\ call' = [name |-> name, event |-> NoEvent]
    /\ pre' = state
    /\ ret' = None
    /\ sent' = << >>
    /\ queued' = << >>
    /\ UNCHANGED <<rx_alive, input, output>>

Open ==
    /\ Mutate("open", open(state))
    /\ cycle_sent' = 0
    /\ UNCHANGED last_sel

Close ==
    /\ Mutate("close", close(state))
    /\ UNCHANGED <<last_sel, cycle_sent>>

Modal ==
    /\ \E v \in BOOLEAN : Mutate("modal", modal(state, v))
    /\ UNCHANGED <<last_sel, cycle_sent>>

WithTitle ==
    /\ \E t \in Titles : Mutate("with_title", with_title(state, t))
    /\ UNCHANGED <<last_sel, cycle_sent>>

WithText ==
    /\ \E x \in Texts : Mutate("with_text", with_text(state, x))
    /\ UNCHANGED <<last_sel, cycle_sent>>

WithListener ==
    /\ \E l \in {None, Some("tx")} : Mutate("with_listener", with_listener(state, l))
    /\ UNCHANGED <<last_sel, cycle_sent>>

WithYesButton ==
    /\ \E b \in ButtonInputs : Mutate("with_yes_button", with_yes_button(state, b))
    /\ UNCHANGED <<last_sel, cycle_sent>>

WithNoButton ==
    /\ \E b \in ButtonInputs : Mutate("with_no_button", with_no_button(state, b))
    /\ UNCHANGED <<last_sel, cycle_sent>>

WithoutNoButton ==
    /\ Mutate("without_no_button", without_no_button(state))
    /\ UNCHANGED <<last_sel, cycle_sent>>

WithYesButtonSelected ==
    /\ \E b \in BOOLEAN :
          /\ Mutate("with_yes_button_selected", with_yes_button_selected(state, b))
          /\ last_sel' = b
    /\ UNCHANGED cycle_sent

\* What a key event selects: an arrow press on a dialog that has a no-button
\* selects a button, every other event selects nothing.
Selects(s, event, old) ==
    IF event.kind = "Press" /\ s.no_button # None /\ event.code \in {"Left", "Right"}
    THEN event.code = "Left"
    ELSE old

\* handle(&event)
Handle ==
    \E event \in KeyEvents :
        LET r == handle(state, event)
        IN  /\ state' = r.st
            /\ call' = [name |-> "handle", event |-> event]
            /\ pre' = state
            /\ ret' = IF Returns(rx_alive, r.msgs) THEN Some(r.ret) ELSE None
            /\ sent' = r.msgs
            /\ queued' = Deliver(rx_alive, r.msgs)
            /\ last_sel' = Selects(state, event, last_sel)
            /\ cycle_sent' = IF cycle_sent + Len(r.msgs) < MaxCycleSent
                             THEN cycle_sent + Len(r.msgs)
                             ELSE MaxCycleSent
            /\ UNCHANGED <<rx_alive, input, output>>

\* The host's guard: a key goes to handle() only while the dialog is opened.
HostHandle == is_opened(state) /\ Handle

\* The host drops the Receiver of the channel.
DropReceiver ==
    /\ rx_alive
    /\ rx_alive' = FALSE
    /\ UNCHANGED <<state, call, pre, ret, sent, queued, last_sel, cycle_sent>>
    /\ UNCHANGED <<input, output>>

\* The host draws a frame: render(area, buf, &mut state).
Render ==
    /\ Mutate("render", render(state).st)
    /\ UNCHANGED <<last_sel, cycle_sent>>

Configure ==
    \/ Modal
    \/ WithTitle
    \/ WithText
    \/ WithListener
    \/ WithYesButton
    \/ WithNoButton
    \/ WithoutNoButton
    \/ WithYesButtonSelected

Next ==
    \/ Open
    \/ Close
    \/ Configure
    \/ Handle
    \/ Render
    \/ DropReceiver

Spec == Init /\ [][Next]_vars

NextHost ==
    \/ Open
    \/ Close
    \/ Configure
    \/ HostHandle
    \/ Render
    \/ DropReceiver

SpecHost == Init /\ [][NextHost]_vars

(***************************************************************************)
(* The pure functions, each applied once to an input drawn from its        *)
(* bounded set, beside a dialog that is left alone.                        *)
(***************************************************************************)
Idle ==
    /\ state = ConfirmDialogState_new(1, "", << >>)
    /\ rx_alive = TRUE
    /\ call = [name |-> "new", event |-> NoEvent]
    /\ pre = state
    /\ ret = None
    /\ sent = << >>
    /\ queued = << >>
    /\ last_sel = TRUE
    /\ cycle_sent = 0

InitLabel == Idle /\ input \in Labels /\ output = None

\* ButtonLabel::try_from(input)
TryFrom ==
    /\ output = None
    /\ output' = try_from(input)
    /\ UNCHANGED <<dialog_vars, input>>

\* ButtonLabel::new(input, control)
New ==
    /\ output = None
    /\ \E control \in Controls :
          output' = [tag |-> "New", val |-> ButtonLabel_new(input, control)]
    /\ UNCHANGED <<dialog_vars, input>>

NextLabel == TryFrom \/ New

SpecLabel == InitLabel /\ [][NextLabel]_vars

InitRect == Idle /\ input \in RectInputs /\ output = None

\* centered_rect_with_size(input.width, input.height, input.r)
CenteredRect ==
    /\ output = None
    /\ output' = centered_rect_with_size(input.width, input.height, input.r)
    /\ UNCHANGED <<dialog_vars, input>>

SpecRect == InitRect /\ [][CenteredRect]_vars

(***************************************************************************)
(* Rendering: a dialog the host has built, or a popup, drawn once.         *)
(***************************************************************************)
InitRender ==
    /\ state \in RenderStates
    /\ rx_alive = TRUE
    /\ call = [name |-> "new", event |-> NoEvent]
    /\ pre = state
    /\ ret = None
    /\ sent = << >>
    /\ queued = << >>
    /\ last_sel = TRUE
    /\ cycle_sent = 0
    /\ input \in RenderInputs
    /\ output = None

\* ConfirmDialog::render(input.area, buf, &mut state)
RenderDialog ==
    /\ output = None
    /\ \E build \in Builds : output' = ConfirmDialog_render(state, input.area, build)
    /\ state' = render(state).st
    /\ call' = [name |-> "render", event |-> NoEvent]
    /\ pre' = state
    /\ UNCHANGED <<rx_alive, ret, sent, queued, last_sel, cycle_sent, input>>

\* PopupMessage::render(input.area, buf)
RenderPopup ==
    /\ output = None
    /\ output' = PopupMessage_render(input.popup, input.area)
    /\ UNCHANGED <<dialog_vars, input>>

NextRender == RenderDialog \/ RenderPopup

SpecRender == InitRender /\ [][NextRender]_vars

(***************************************************************************)
(* Vocabulary of the properties.                                           *)
(***************************************************************************)
\* The last call was handle() of a press of the given key code.
Pressed(code) ==
    /\ call.name = "handle"
    /\ call.event.kind = "Press"
    /\ call.event.code = code

\* The last call was handle() of a press of the character chr.
PressedChar(chr) == Pressed("Char") /\ call.event.chr = chr

\* The notification a closing key owes the listener of dialog s.
Notification(s, result) ==
    IF s.listener = None THEN << >> ELSE <<[id |-> s.id, result |-> result]>>

\* chr is the control character of the no-button of s.
IsNoControl(s, chr) == s.no_button # None /\ chr = s.no_button.val.control

\* The event is a press that is neither Esc, Enter, Left, Right nor the
\* control character of a button of s.
Unrecognized(s, event) ==
    /\ event.kind = "Press"
    /\ event.code \notin {"Esc", "Enter", "Left", "Right"}
    /\ event.code = "Char" =>
          /\ event.chr # s.yes_button.control
          /\ ~IsNoControl(s, event.chr)

(***************************************************************************)
(* C1: on an open, non-modal dialog an Esc press sets opened to false,     *)
(* sends exactly one message (id, None) if a listener is set (none         *)
(* otherwise), returns true and changes no other field.                    *)
(***************************************************************************)
C1_EscDismisses ==
    (Pressed("Esc") /\ pre.opened /\ ~pre.modal) =>
        /\ state = [pre EXCEPT !.opened = FALSE]
        /\ sent = Notification(pre, None)
        /\ ret = Some(TRUE)

C1_Witness ==
    /\ Pressed("Esc")
    /\ pre.opened
    /\ ~pre.modal
    /\ pre.listener # None
    /\ ~state.opened
    /\ sent = <<Msg(state.id, None)>>
    /\ ret = Some(TRUE)

(***************************************************************************)
(* C2: on an open dialog, modal or not, a press of the yes control         *)
(* character closes the dialog, sends (id, Some(true)) and returns true; a *)
(* press of the no control character, when a no-button is present and the  *)
(* character is not the yes control, closes it, sends (id, Some(false))     *)
(* and returns true.                                                       *)
(***************************************************************************)
C2_ControlCharCloses ==
    \A chr \in Chars :
        (PressedChar(chr) /\ pre.opened) =>
            /\ chr = pre.yes_button.control =>
                  /\ ~state.opened
                  /\ sent = Notification(pre, Some(TRUE))
                  /\ ret = Some(TRUE)
            /\ (chr # pre.yes_button.control /\ IsNoControl(pre, chr)) =>
                  /\ ~state.opened
                  /\ sent = Notification(pre, Some(FALSE))
                  /\ ret = Some(TRUE)

C2_Witness ==
    /\ PressedChar("n")
    /\ pre.opened
    /\ pre.modal
    /\ pre.yes_button.control = "y"
    /\ IsNoControl(pre, "n")
    /\ ~state.opened
    /\ sent = <<Msg(state.id, Some(FALSE))>>
    /\ ret = Some(TRUE)

(***************************************************************************)
(* C3: on an open dialog with a no-button, an Enter press closes the       *)
(* dialog, returns true and sends (id, Some(yes_selected)), modal or not;  *)
(* and that value is what the most recent selecting operation chose: true  *)
(* after Left or with_yes_button_selected(true), false after Right or      *)
(* with_yes_button_selected(false).  (last_sel follows the arrows only     *)
(* while a no-button is present, the case the claim is about.)             *)
(***************************************************************************)
C3_EnterReportsSelection ==
    (Pressed("Enter") /\ pre.opened /\ pre.no_button # None) =>
        /\ ~state.opened
        /\ ret = Some(TRUE)
        /\ sent = Notification(pre, Some(pre.yes_selected))
        /\ pre.yes_selected = last_sel

C3_Witness ==
    /\ Pressed("Enter")
    /\ pre.opened
    /\ pre.modal
    /\ pre.no_button # None
    /\ ~last_sel
    /\ ~state.opened
    /\ sent = <<Msg(state.id, Some(FALSE))>>

(***************************************************************************)
(* C4: a dialog without a no-button behaves as if yes were selected: an    *)
(* Enter press on it (opened) sends (id, Some(true)), never Some(false).   *)
(***************************************************************************)
C4_SingleButtonEnterConfirms ==
    (Pressed("Enter") /\ pre.opened /\ pre.no_button = None) =>
        sent = Notification(pre, Some(TRUE))

(***************************************************************************)
(* C5: on an open dialog with a no-button, a Right press sets yes_selected *)
(* to false and a Left press sets it to true; pressing the same arrow      *)
(* again changes nothing more; neither closes the dialog, notifies, nor    *)
(* changes another field; without a no-button both leave the state as it   *)
(* was.                                                                    *)
(***************************************************************************)
C5_ArrowsSelect ==
    \A code \in {"Left", "Right"} :
        (Pressed(code) /\ pre.opened) =>
            /\ pre.no_button # None =>
                  state = [pre EXCEPT !.yes_selected = (code = "Left")]
            /\ pre.no_button = None => state = pre
            /\ sent = << >>
            /\ handle(state, call.event).st = state

C5_Witness ==
    /\ Pressed("Right")
    /\ pre.opened
    /\ pre.no_button # None
    /\ pre.yes_selected
    /\ ~state.yes_selected
    /\ state.opened

(***************************************************************************)
(* C6: handle() closes an open modal dialog only on a press of the yes     *)
(* control, of the no control or of Enter; an Esc press on it changes no   *)
(* field and sends nothing; a dialog that is modal when the key arrives    *)
(* never emits the outcome None.                                           *)
(***************************************************************************)
C6_ModalClosesOnlyByChoice ==
    (call.name = "handle" /\ pre.modal) =>
        /\ (pre.opened /\ ~state.opened) =>
              /\ call.event.kind = "Press"
              /\ \/ call.event.code = "Enter"
                 \/ /\ call.event.code = "Char"
                    /\ \/ call.event.chr = pre.yes_button.control
                       \/ IsNoControl(pre, call.event.chr)
        /\ (Pressed("Esc") /\ pre.opened) => (state = pre /\ sent = << >>)
        /\ \A i \in 1..Len(sent) : sent[i].result # None

C6_Witness ==
    /\ Pressed("Esc")
    /\ pre.opened
    /\ pre.modal
    /\ pre.listener # None
    /\ state.opened
    /\ sent = << >>

(***************************************************************************)
(* C7: an open modal dialog swallows every key: handle() returns true for  *)
(* every key press, Esc included.                                          *)
(***************************************************************************)
C7_ModalSwallowsAllKeys ==
    (call.name = "handle" /\ call.event.kind = "Press" /\ pre.opened /\ pre.modal) =>
        ret = Some(TRUE)

(***************************************************************************)
(* C8: on an open dialog a press that is neither Esc, Enter, Left, Right   *)
(* nor the control character of a present button changes no field, sends   *)
(* nothing, and handle() returns the modal flag.                           *)
(***************************************************************************)
C8_UnrecognizedKeyIsNoOp ==
    (call.name = "handle" /\ pre.opened /\ Unrecognized(pre, call.event)) =>
        /\ state = pre
        /\ sent = << >>
        /\ ret = Some(pre.modal)

C8_Witness ==
    /\ PressedChar("x")
    /\ pre.opened
    /\ ~pre.modal
    /\ pre.listener # None
    /\ state = pre
    /\ ret = Some(FALSE)

(***************************************************************************)
(* C9: a closed dialog processes no key event: handle() on a dialog whose  *)
(* opened is false changes no field and sends no notification.             *)
(***************************************************************************)
C9_ClosedIgnoresKeys ==
    (call.name = "handle" /\ ~pre.opened) => (state = pre /\ sent = << >>)

(***************************************************************************)
(* C10: when keys reach handle() only while is_opened() is true, at most   *)
(* one listener message is sent between an open() and the next open(),     *)
(* and it is sent by the handle() call that turns opened from true to      *)
(* false: no other call sends.                                             *)
(***************************************************************************)
C10_OneMessagePerCycle ==
    /\ cycle_sent =< 1
    /\ sent # << >> =>
          /\ call.name = "handle"
          /\ pre.opened
          /\ ~state.opened
          /\ Len(sent) = 1

C10_Witness ==
    /\ call.name = "handle"
    /\ pre.opened
    /\ ~state.opened
    /\ Len(sent) = 1
    /\ cycle_sent = 1

(***************************************************************************)
(* Vocabulary of the later properties.                                     *)
(***************************************************************************)
\* The event is a press that closes dialog s: Esc when s is not modal,
\* Enter, or the control character of one of its buttons.
Closing(s, event) ==
    /\ event.kind = "Press"
    /\ \/ event.code = "Esc" /\ ~s.modal
       \/ event.code = "Enter"
       \/ /\ event.code = "Char"
          /\ event.chr = s.yes_button.control \/ IsNoControl(s, event.chr)

(***************************************************************************)
(* C11: notification is best effort: when no listener is set, or the       *)
(* Receiver is gone (the send was made and not accepted), a closing press   *)
(* on an open dialog still sets opened to false and handle() still returns *)
(* true, after at most one send.                                           *)
(***************************************************************************)
C11_BestEffortNotification ==
    (/\ call.name = "handle"
     /\ pre.opened
     /\ Closing(pre, call.event)
     /\ pre.listener = None \/ queued = << >>) =>
        /\ ~state.opened
        /\ ret = Some(TRUE)
        /\ Len(sent) =< 1

C11_Witness ==
    /\ Pressed("Enter")
    /\ pre.opened
    /\ pre.listener # None
    /\ ~rx_alive
    /\ sent # << >>
    /\ queued = << >>
    /\ ~state.opened
    /\ ret = Some(TRUE)

(***************************************************************************)
(* C12: open() and close() write opened and nothing else, send nothing,    *)
(* and are idempotent: open() on an open dialog and close() on a closed    *)
(* one leave the state as it was.                                          *)
(***************************************************************************)
C12_OpenCloseIdempotentSilent ==
    /\ call.name = "open" =>
          /\ state = [pre EXCEPT !.opened = TRUE]
          /\ pre.opened => state = pre
          /\ open(state) = state
          /\ sent = << >>
    /\ call.name = "close" =>
          /\ state = [pre EXCEPT !.opened = FALSE]
          /\ ~pre.opened => state = pre
          /\ close(state) = state
          /\ sent = << >>

C12_Witness ==
    /\ call.name = "close"
    /\ ~pre.opened
    /\ ~pre.yes_selected
    /\ pre.listener # None
    /\ state = pre
    /\ sent = << >>

(***************************************************************************)
(* C13: only presses are acted upon: handle() of a Release or Repeat event *)
(* of any key code, in any dialog state, changes no field, sends nothing   *)
(* and returns false.                                                      *)
(***************************************************************************)
C13_OnlyPressActs ==
    (call.name = "handle" /\ call.event.kind # "Press") =>
        /\ state = pre
        /\ sent = << >>
        /\ ret = Some(FALSE)

C13_Witness ==
    /\ call.name = "handle"
    /\ call.event = Key("Enter", "Release")
    /\ pre.opened
    /\ pre.modal
    /\ pre.listener # None
    /\ state = pre
    /\ ret = Some(FALSE)

(***************************************************************************)
(* C18: rendering never mutates the dialog state: after render() every     *)
(* field of the state is what it was before, and no message was sent.      *)
(***************************************************************************)
C18_RenderLeavesState ==
    call.name = "render" => (state = pre /\ sent = << >> /\ queued = << >>)

C18_Witness ==
    /\ call.name = "render"
    /\ state.opened
    /\ state.no_button = None
    /\ ~state.yes_selected
    /\ state.listener # None
    /\ state = pre

(***************************************************************************)
(* C19: when the yes and the no control are the same character, a press of *)
(* it on an open dialog is decided by the yes-button: the dialog closes    *)
(* and the one message sent is (id, Some(true)).                           *)
(***************************************************************************)
C19_YesControlWins ==
    \A chr \in Chars :
        (/\ PressedChar(chr)
         /\ pre.opened
         /\ chr = pre.yes_button.control
         /\ IsNoControl(pre, chr)) =>
            /\ ~state.opened
            /\ sent = Notification(pre, Some(TRUE))
            /\ Len(sent) =< 1

C19_Witness ==
    /\ PressedChar("n")
    /\ pre.opened
    /\ pre.yes_button.control = "n"
    /\ IsNoControl(pre, "n")
    /\ ~state.opened
    /\ sent = <<Msg(state.id, Some(TRUE))>>

\* try_from(input) has returned or trapped.
Parsed == output # None /\ output.tag # "New"

\* The control of button b matches, whatever the case, a character of its label.
ControlInLabel(b) ==
    \E i \in 1..Len(b.label) : to_lowercase(b.label[i]) = to_lowercase(b.control)

(***************************************************************************)
(* C14: label parsing round trip: a label that contains a parenthesized    *)
(* word character c (the leftmost one), whatever precedes it, parses to    *)
(* control = lowercase(c) and to the label unchanged.                      *)
(***************************************************************************)
C14_ParenthesizedRoundTrip ==
    (Parsed /\ MatchAt(input) # 0) =>
        output = Ok([ label   |-> input,
                      control |-> to_lowercase(input[MatchAt(input) + 1]),
                      style   |-> None ])

(***************************************************************************)
(* C15: fallback wrapping: a non-empty label with no parenthesized         *)
(* character parses to the label with its first character wrapped in       *)
(* parentheses, the rest unchanged, and to control = lowercase of that     *)
(* first character.                                                        *)
(***************************************************************************)
C15_FallbackWraps ==
    (Parsed /\ input # << >> /\ MatchAt(input) = 0) =>
        output = Ok([ label   |-> <<"(", input[1], ")">> \o Tail(input),
                      control |-> to_lowercase(input[1]),
                      style   |-> None ])

(***************************************************************************)
(* C16: label parsing fails exactly on the empty string: "" gives the      *)
(* error value and every non-empty string gives Ok, never a trap.          *)
(***************************************************************************)
C16_FailsExactlyOnEmpty ==
    Parsed =>
        /\ input = << >> => output = Err
        /\ input # << >> => output.tag = "Ok"

(***************************************************************************)
(* C17: geometry clamp: for every requested size and every available area, *)
(* zero-sized areas and oversized requests included, the rectangle         *)
(* centered_rect_with_size returns lies inside the area.                   *)
(***************************************************************************)
C17_RectInsideArea ==
    output # None =>
        /\ output.x >= input.r.x
        /\ output.y >= input.r.y
        /\ output.x + output.width =< input.r.x + input.r.width
        /\ output.y + output.height =< input.r.y + input.r.height

C17_Witness ==
    /\ output # None
    /\ input.width > input.r.width
    /\ input.r.width > 0
    /\ input.r.height = 0
    /\ input.height > 0
    /\ output.width = input.r.width
    /\ output.height = 0

(***************************************************************************)
(* C20 as claimed: every ButtonLabel the public constructors give, direct  *)
(* construction included, has a control that matches, whatever the case, a *)
(* character of its label.                                                 *)
(***************************************************************************)
C20_EveryButtonControlInLabel ==
    /\ output.tag \in {"Ok", "New"} => ControlInLabel(output.val)
    /\ ControlInLabel(YES)
    /\ ControlInLabel(NO)
    /\ ControlInLabel(state.yes_button)
    /\ ControlInLabel(state.no_button.val)

(***************************************************************************)
(* C20 as amended: every ButtonLabel that parsing returns, the constants   *)
(* YES and NO, and the default buttons of ConfirmDialogState::new have a   *)
(* control that matches, whatever the case, a character of their label;    *)
(* ButtonLabel::new stores the pair it is given as it is.                  *)
(***************************************************************************)
C20_ParsedControlInLabel ==
    /\ output.tag = "Ok" => ControlInLabel(output.val)
    /\ ControlInLabel(YES)
    /\ ControlInLabel(NO)
    /\ ControlInLabel(state.yes_button)
    /\ ControlInLabel(state.no_button.val)

C20_Witness ==
    /\ output.tag = "Ok"
    /\ MatchAt(input) = 0
    /\ input[1] = "N"
    /\ Len(input) > 1
    /\ output.val.control = "n"
    /\ output.val.label[2] = "N"
    /\ ControlInLabel(output.val)

(***************************************************************************)
(* C21: centered_rect_with_size returns a rectangle of exactly width       *)
(* min(requested width, area.width) and height min(requested height,       *)
(* area.height), whose left and top margins inside the area are the halves *)
(* of what remains, rounded down: an odd remainder leaves the extra cell   *)
(* on the right / bottom side.                                             *)
(***************************************************************************)
C21_ClampedAndCentered ==
    output # None =>
        LET w == IF input.width < input.r.width THEN input.width ELSE input.r.width
            h == IF input.height < input.r.height THEN input.height ELSE input.r.height
            left == output.x - input.r.x
            top == output.y - input.r.y
            right == input.r.width - w - left
            bottom == input.r.height - h - top
        IN  /\ output.width = w
            /\ output.height = h
            /\ left = (input.r.width - w) \div 2
            /\ top = (input.r.height - h) \div 2
            /\ right \in {left, left + 1}
            /\ bottom \in {top, top + 1}

C21_Witness ==
    /\ output # None
    /\ input.width < input.r.width
    /\ (input.r.width - input.width) % 2 = 1
    /\ (input.r.height - input.height) % 2 = 1
    /\ input.r.height - input.height > 1
    /\ output.y - input.r.y = 1
    /\ input.r.height - output.height - (output.y - input.r.y) = 2
    /\ output.width = input.width

(***************************************************************************)
(* Vocabulary of the rendering properties.                                 *)
(***************************************************************************)
\* ConfirmDialog::render / PopupMessage::render has been called.
Drawn == output.tag = "ConfirmDialog"
DrawnPopup == output.tag = "PopupMessage"

\* The number of characters of a label, and its number of UTF-8 bytes.
Characters(label) == Len(label)
Utf8Bytes(label) ==
    Len(label) + Cardinality({i \in 1..Len(label) : label[i] \in {"i_grave", "I_grave"}})

\* The wider of two widths.
Wider(a, b) == IF a >= b THEN a ELSE b

\* w is the width of the longest line of the text.
IsLongestLine(text, w) ==
    /\ \E i \in 1..Len(text) : text[i] = w
    /\ \A i \in 1..Len(text) : text[i] =< w

(***************************************************************************)
(* C22 as claimed: the footprint of each button is the length of its label *)
(* plus 2, and the minimum dialog width is the sum of the footprints of    *)
(* the buttons present plus 4.                                             *)
(***************************************************************************)
C22_FootprintIsLabelPlusTwo ==
    Drawn =>
        /\ output.yes_button_size = Characters(pre.yes_button.label) + 2
        /\ pre.no_button # None =>
              output.no_button_size = Characters(pre.no_button.val.label) + 2
        /\ pre.no_button = None => output.no_button_size = 0
        /\ output.min_width = output.yes_button_size + output.no_button_size + 4

(***************************************************************************)
(* C22 as amended: the footprint of each button is ButtonLabel::len() plus *)
(* 2, where len() is the length of the label in UTF-8 bytes plus 2 (so the *)
(* footprint is that byte length plus 4), and the minimum dialog width is  *)
(* the sum of the footprints of the buttons present plus 4.                *)
(***************************************************************************)
C22_FootprintIsByteLenPlusFour ==
    Drawn =>
        /\ output.yes_button_size = Utf8Bytes(pre.yes_button.label) + 4
        /\ pre.no_button # None =>
              output.no_button_size = Utf8Bytes(pre.no_button.val.label) + 4
        /\ pre.no_button = None => output.no_button_size = 0
        /\ output.min_width = output.yes_button_size + output.no_button_size + 4

C22_Witness ==
    /\ Drawn
    /\ Utf8Bytes(pre.yes_button.label) > Characters(pre.yes_button.label)
    /\ pre.no_button # None
    /\ output.yes_button_size = 9
    /\ output.no_button_size = 8
    /\ output.min_width = 21

(***************************************************************************)
(* C23: the size asked of the geometry helper is width = max(minimum       *)
(* dialog width, longest text line + 4, 40) and height = number of text    *)
(* lines + 6; for a text without lines the content term is the minimum     *)
(* dialog width.                                                           *)
(***************************************************************************)
C23_RequestedSize ==
    Drawn =>
        /\ output.height = Len(pre.text) + 6
        /\ pre.text = << >> => output.width = Wider(output.min_width, 40)
        /\ \A w \in 0..65535 :
              IsLongestLine(pre.text, w) =>
                  output.width = Wider(Wider(output.min_width, w + 4), 40)

C23_Witness ==
    /\ Drawn
    /\ pre.text # << >>
    /\ IsLongestLine(pre.text, 42)
    /\ output.min_width > 46
    /\ output.width = output.min_width
    /\ output.height = 8

(***************************************************************************)
(* C24: the margin of the button row never underflows: on every non-empty  *)
(* area, also one narrower than the buttons, (row width - total button     *)
(* width) / 2 is computed without a trap and without a wrapped result,     *)
(* with two buttons and with one.                                          *)
(***************************************************************************)
C24_MarginNeverUnderflows ==
    (Drawn /\ input.area.width > 0 /\ input.area.height > 0) =>
        /\ ~output.trap
        /\ output.c.val * 2 =< output.centered_area.width

(***************************************************************************)
(* C25: in every render exactly one button present gets the selected       *)
(* style: the yes button iff yes_selected is true or there is no           *)
(* no-button, the no-button (when present) iff yes_selected is false; the  *)
(* other button gets the default button style.                             *)
(***************************************************************************)
C25_OneButtonSelected ==
    Drawn =>
        /\ output.yes_style \in {"selected_button_style", "button_style"}
        /\ output.yes_style = "selected_button_style"
              <=> (pre.yes_selected \/ pre.no_button = None)
        /\ pre.no_button = None => output.no_style = None
        /\ pre.no_button # None =>
              /\ output.no_style \in {Some("selected_button_style"), Some("button_style")}
              /\ output.no_style = Some("selected_button_style") <=> ~pre.yes_selected
              /\ output.no_style = Some("selected_button_style")
                    <=> output.yes_style = "button_style"

C25_Witness ==
    /\ Drawn
    /\ pre.no_button = None
    /\ ~pre.yes_selected
    /\ output.yes_style = "selected_button_style"
    /\ output.no_style = None

(***************************************************************************)
(* C26: rendering is total for an empty text: drawing a ConfirmDialog      *)
(* whose text has no lines, and drawing a PopupMessage whose message has   *)
(* no lines, complete without a trap on every non-empty area.              *)
(***************************************************************************)
C26_EmptyTextRenders ==
    (input.area.width > 0 /\ input.area.height > 0) =>
        /\ (Drawn /\ pre.text = << >>) => ~output.trap
        /\ (DrawnPopup /\ input.popup.message = << >>) => ~output.trap

(***************************************************************************)
(* C27: the selection survives close and reopen: open() and close() leave  *)
(* yes_selected alone, yes_selected changes only by a Left or Right press  *)
(* on a dialog with a no-button and by with_yes_button_selected, and Enter *)
(* reports the selection it finds; so a selection of the no-button that    *)
(* was reported by Enter is reported again by Enter after a later open().  *)
(***************************************************************************)
C27_SelectionSurvivesReopen ==
    /\ call.name \in {"open", "close"} => state.yes_selected = pre.yes_selected
    /\ state.yes_selected # pre.yes_selected =>
          \/ call.name = "with_yes_button_selected"
          \/ (Pressed("Left") \/ Pressed("Right")) /\ pre.no_button # None
    /\ Pressed("Enter") =>
          /\ state.yes_selected = pre.yes_selected
          /\ sent = Notification(pre, Some(pre.yes_selected))

C27_Witness ==
    /\ call.name = "open"
    /\ ~pre.opened
    /\ state.opened
    /\ ~state.yes_selected
    /\ ~last_sel
    /\ state.no_button # None
    /\ state.listener # None

\* chr is the control of no button of s, but is the letter of one in the
\* other case.
DiffersOnlyByCase(s, chr) ==
    /\ chr # s.yes_button.control
    /\ ~IsNoControl(s, chr)
    /\ \/ to_lowercase(chr) = to_lowercase(s.yes_button.control)
       \/ /\ s.no_button # None
          /\ to_lowercase(chr) = to_lowercase(s.no_button.val.control)

(***************************************************************************)
(* C28: handle() matches control characters by exact equality: a press of  *)
(* a character that differs from a button's control only by letter case    *)
(* (and is the control of no button) does not close the dialog, sends      *)
(* nothing and returns the modal flag, as any unrecognized key.            *)
(***************************************************************************)
C28_ControlMatchIsExact ==
    (Pressed("Char") /\ DiffersOnlyByCase(pre, call.event.chr)) =>
        /\ state = pre
        /\ sent = << >>
        /\ ret = Some(pre.modal)

C28_Witness ==
    /\ PressedChar("y")
    /\ pre.yes_button.control = "Y"
    /\ pre.opened
    /\ pre.listener # None
    /\ ~pre.modal
    /\ state.opened
    /\ sent = << >>
    /\ ret = Some(FALSE)

(***************************************************************************)
(* C29: handle() returns true for every press that closes the dialog, and  *)
(* for a Left or Right press it returns the modal flag: on an open,        *)
(* non-modal dialog with a no-button an arrow press can change             *)
(* yes_selected while handle() returns false.                              *)
(***************************************************************************)
C29_ArrowsReturnModalFlag ==
    /\ (call.name = "handle" /\ Closing(pre, call.event)) => ret = Some(TRUE)
    /\ (call.name = "handle" /\ pre.opened /\ ~state.opened) => ret = Some(TRUE)
    /\ (Pressed("Left") \/ Pressed("Right")) => ret = Some(pre.modal)

C29_Witness ==
    /\ Pressed("Left")
    /\ pre.opened
    /\ ~pre.modal
    /\ pre.no_button # None
    /\ ~pre.yes_selected
    /\ state.yes_selected
    /\ state # pre
    /\ ret = Some(FALSE)

====
